---- MODULE Spec2Model ----
(***************************************************************************)
(* Model of src/encoding/proto.rs: the OpenMetrics protobuf encoder of the *)
(* metrics registry.  The encoder (encode, EncodeLabel, EncodeMetric for   *)
(* Counter and Family) is translated from proto.rs.  Counter, Family and   *)
(* Registry live in other modules of the crate (metrics/counter.rs,        *)
(* metrics/family.rs, registry.rs); their behaviour is modelled from the   *)
(* specification: a Counter is a shared atomic cell, a Family is a map     *)
(* behind a read/write lock, a Registry an ordered list of                 *)
(* (descriptor, metric) pairs that is only changed through &mut.           *)
(***************************************************************************)
EXTENDS Integers, Sequences, FiniteSets, TLC

(* ------------------------------ bounds --------------------------------- *)

\* most entries a registry holds
MaxRegistered == 2

\* most entries of a registry when every unit is tried
MetaLen == 1

\* most increments the workers make, all counters together
MaxInc == 2

\* most lines the encoders write to standard output
MaxPrints == 2

(* ------------------------------ threads -------------------------------- *)

\* threads that call the top-level encode
Encoders == {"e1", "e2"}

\* threads that hold clones of the metrics and mutate them
Workers == {"w1", "w2"}

(* ------------------------------ data ----------------------------------- *)

\* the two label-set keys of tests::test_encode
KeyGet == << <<"method", "GET">>, <<"status", "200">> >>

KeyPost == << <<"method", "POST">>, <<"status", "503">> >>

Keys == {KeyGet, KeyPost}

\* the cell of the stand-alone counter; family children get cells 1, 2, ...
CounterCell == 0

\* cells a family can allocate for its children
MaxInst == 3

Cells == 0..MaxInst

\* Option<Unit> of a descriptor
NoUnit == [some |-> FALSE, tag |-> "", other |-> ""]

SomeUnit(tag) == [some |-> TRUE, tag |-> tag, other |-> ""]

OtherUnit(text) == [some |-> TRUE, tag |-> "Other", other |-> text]

UnitTags ==
    {"Amperes", "Bytes", "Celsius", "Grams", "Joules", "Meters", "Ratios",
     "Seconds", "Volts"}

Units == {NoUnit} \cup {SomeUnit(t) : t \in UnitTags} \cup {OtherUnit("requests")}

\* the static labels a registry path contributes
NoLabels == << >>

SubLabels == << <<"my_key", "my_value">> >>

\* a registered metric handle: a clone of the counter or of the family
CounterMetric == [kind |-> "Counter"]

FamilyMetric == [kind |-> "Family"]

Descriptor(name, help, unit, labels) ==
    [name |-> name, help |-> help, unit |-> unit, labels |-> labels]

\* the two registrations of tests::test_encode
CounterDesc == Descriptor("my_counter", "My counter", SomeUnit("Seconds"), NoLabels)

FamilyDesc == Descriptor("my_counter_family", "My counter family", NoUnit, SubLabels)

Registrations ==
    { [desc |-> CounterDesc, metric |-> CounterMetric],
      [desc |-> FamilyDesc, metric |-> FamilyMetric] }

\* registrations with every unit, for the metadata table
MetaRegistrations ==
    { [desc |-> Descriptor(n, "help of " \o n, u, l), metric |-> m] :
        n \in {"m1"}, u \in Units, l \in {NoLabels, SubLabels},
        m \in {CounterMetric, FamilyMetric} }

(* ------------------------- pure functions ------------------------------ *)

\* impl EncodeLabel for (K, V): one Label, both fields through to_string
EncodeLabelPair(p) == << [name |-> p[1], value |-> p[2]] >>

\* impl EncodeLabel for Vec<T> / &[T]: the elements' encodings, appended in order
RECURSIVE EncodeLabelVec(_)
EncodeLabelVec(v) ==
    IF v = << >> THEN << >>
    ELSE EncodeLabelPair(Head(v)) \o EncodeLabelVec(Tail(v))

\* MetricType of the crate -> MetricType of openmetrics_data_model
FromMetricType(m) ==
    CASE m = "Counter" -> [openmetrics |-> "COUNTER"]
      [] m = "Gauge" -> [openmetrics |-> "GAUGE"]
      [] m = "Histogram" -> [openmetrics |-> "HISTOGRAM"]
      [] m = "Info" -> [openmetrics |-> "INFO"]
      [] m = "Unknown" -> [openmetrics |-> "UNKNOWN"]

\* <Counter as TypedMetric>::TYPE
CounterTYPE == "Counter"

\* EncodeMetric::metric_type, for Counter and for Family<S, Counter>
MetricTypeOf(metric) ==
    IF metric.kind = "Counter" THEN "Counter" ELSE CounterTYPE

\* the match on Unit inside encode; family.unit stays "" without a unit
UnitStringOther(unit) ==
    IF ~unit.some THEN ""
    ELSE CASE unit.tag = "Amperes" -> "amperes"
           [] unit.tag = "Bytes" -> "bytes"
           [] unit.tag = "Celsius" -> "celsius"
           [] unit.tag = "Grams" -> "grams"
           [] unit.tag = "Joules" -> "joules"
           [] unit.tag = "Meters" -> "meters"
           [] unit.tag = "Ratios" -> "ratios"
           [] unit.tag = "Seconds" -> "seconds"
           [] unit.tag = "Volts" -> "volts"
           [] unit.tag = "Other" -> "other"

UnitString(unit) ==
    IF ~unit.some THEN ""
    ELSE CASE unit.tag = "Amperes" -> "amperes"
           [] unit.tag = "Bytes" -> "bytes"
           [] unit.tag = "Celsius" -> "celsius"
           [] unit.tag = "Grams" -> "grams"
           [] unit.tag = "Joules" -> "joules"
           [] unit.tag = "Meters" -> "meters"
           [] unit.tag = "Ratios" -> "ratios"
           [] unit.tag = "Seconds" -> "seconds"
           [] unit.tag = "Volts" -> "volts"
           [] unit.tag = "Other" -> unit.other

\* MetricFamily::default() with name, type, unit and help set from the descriptor
FamilyHeader(desc, metric) ==
    [name |-> desc.name,
     type |-> FromMetricType(MetricTypeOf(metric)),
     unit |-> UnitString(desc.unit),
     help |-> desc.help,
     metrics |-> << >>]

\* println!("family.help: {}", family.help)
HelpLine(fam_rec) == "family.help: " \o fam_rec.help

\* a MetricPoint holding CounterValue { total: IntValue(total) }
CounterPoint(total) ==
    [value |-> [oneof |-> "CounterValue",
                total |-> [oneof |-> "IntValue", int |-> total]]]

\* a counter encoded without its labels
CounterEncodeNoLabels(total, lbls) ==
    << [labels |-> << >>, metric_points |-> << CounterPoint(total) >>] >>

\* <Counter as EncodeMetric>::encode, total being self.get()
CounterEncode(total, lbls) ==
    << [labels |-> lbls, metric_points |-> << CounterPoint(total) >>] >>

\* the prefix put before the key's labels
AppendLabelsPrefixFirst(label, lbls) == [label |-> lbls \o label, labels |-> lbls]

\* label.append(&mut labels) without the clone: the prefix is moved out
AppendLabelsMoved(label, lbls) == [label |-> label \o lbls, labels |-> << >>]

\* label.append(&mut labels.clone()): the merged labels, and labels as left behind
AppendLabels(label, lbls) == [label |-> label \o lbls, labels |-> lbls]

\* metric_set.metric_families.insert(0, family)
PushFamilyFront(set, fam_rec) == << fam_rec >> \o set

\* metric_set.metric_families.push(family)
PushFamily(set, fam_rec) == Append(set, fam_rec)

(* ------------------------------ state ---------------------------------- *)

VARIABLES
    registry,    \* Registry: the (descriptor, metric) pairs, in iteration order
    counter,     \* value of every counter cell (AtomicU64 behind an Arc)
    fam,         \* the family's HashMap: key -> cell of its child, 0 when absent
    nextInst,    \* next cell the family's constructor hands out
    readers,     \* threads holding the family's read lock
    writer,      \* thread holding the family's write lock, or "none"
    stdout,      \* lines written to standard output
    pc,          \* where each encoder is inside encode
    idx,         \* position of each encoder's registry iterator
    metric_set,  \* each encoder's MetricSet under construction (and as returned)
    family,      \* each encoder's MetricFamily under construction
    labels,      \* the labels argument of the running EncodeMetric::encode
    metrics,     \* the metrics vector of the running Family::encode
    visited,     \* keys the guard's iterator has already yielded
    wpc,         \* where each worker is
    wkey,        \* key of the worker's get_or_create
    handle,      \* cell the worker's get_or_create returned
    acqKeys,     \* history: the family's keys when the encoder took the read lock
    mustKeys,    \* history: keys of family encodes that returned before this one began
    doneKeys,    \* history: keys that contributed to some returned family encode
    prev,        \* history: the encoder's previous MetricSet, if nothing changed since
    dirty,       \* history: a metric or the registry changed during this encode
    storedEver,  \* history: every cell ever stored under each key
    keyIncs,     \* history: increments completed through handles of each key
    incsDone     \* history: increments completed on each cell

encVars == <<pc, idx, metric_set, family, labels, metrics, visited>>

lockVars == <<readers, writer>>

workVars == <<wpc, wkey, handle>>

histVars == <<acqKeys, mustKeys, doneKeys, prev, dirty, storedEver, keyIncs, incsDone>>

vars ==
    <<registry, counter, fam, nextInst, lockVars, stdout, encVars, workVars, histVars>>

\* increments made so far, all cells together
RECURSIVE SumTo(_, _)
SumTo(f, n) == IF n < 0 THEN 0 ELSE f[n] + SumTo(f, n - 1)

IncsMade == SumTo(counter, MaxInst)

\* keys present in a family map
KeysOf(map) == {k \in Keys : map[k] # 0}

\* MetricFamily::default()
NoFamily == [name |-> "", type |-> [openmetrics |-> "UNKNOWN"], unit |-> "", help |-> "",
             metrics |-> << >>]

NoPrev == [some |-> FALSE, val |-> << >>]

\* a change of a metric or of the registry: earlier outputs are no longer comparable
Mutated ==
    /\ prev' = [e \in Encoders |-> NoPrev]
    /\ dirty' = [e \in Encoders |-> TRUE]

\* the state with registry reg and family map, before any thread runs
InitState(reg, map) ==
    /\ registry = reg
    /\ counter = [c \in Cells |-> 0]
    /\ fam = map
    /\ nextInst = 1 + Cardinality(KeysOf(map))
    /\ readers = {}
    /\ writer = "none"
    /\ stdout = << >>
    /\ pc = [e \in Encoders |-> "idle"]
    /\ idx = [e \in Encoders |-> 1]
    /\ metric_set = [e \in Encoders |-> << >>]
    /\ family = [e \in Encoders |-> NoFamily]
    /\ labels = [e \in Encoders |-> << >>]
    /\ metrics = [e \in Encoders |-> << >>]
    /\ visited = [e \in Encoders |-> {}]
    /\ wpc = [w \in Workers |-> "idle"]
    /\ wkey = [w \in Workers |-> KeyGet]
    /\ handle = [w \in Workers |-> 0]
    /\ acqKeys = [e \in Encoders |-> {}]
    /\ mustKeys = [e \in Encoders |-> {}]
    /\ doneKeys = {}
    /\ prev = [e \in Encoders |-> NoPrev]
    /\ dirty = [e \in Encoders |-> TRUE]
    /\ storedEver = [k \in Keys |-> IF map[k] = 0 THEN {} ELSE {map[k]}]
    /\ keyIncs = [k \in Keys |-> 0]
    /\ incsDone = [c \in Cells |-> 0]

\* a family without children
EmptyMap == [k \in Keys |-> 0]

\* a family whose first get_or_create has been made
OneChildMap == [k \in Keys |-> IF k = KeyGet THEN 1 ELSE 0]

\* Registry::default(), Counter::default(), Family::default()
Init == InitState(<< >>, EmptyMap)

(* ----------------------------- registry -------------------------------- *)

\* Registry::register / register_with_unit / sub_registry_with_label(..).register:
\* needs &mut Registry, so no encode(&registry) is running
RegisterFrom(choices, limit) ==
    /\ Len(registry) < limit
    /\ \A e \in Encoders : pc[e] = "idle"
    /\ \E r \in choices : registry' = Append(registry, r)
    /\ Mutated
    /\ UNCHANGED <<counter, fam, nextInst, lockVars, stdout, encVars, workVars,
                   acqKeys, mustKeys, doneKeys, storedEver, keyIncs, incsDone>>

Register == RegisterFrom(Registrations, MaxRegistered)

RegisterMeta == RegisterFrom(MetaRegistrations, MetaLen)

(* ------------------------- top-level encode ---------------------------- *)

Entry(e) == registry[idx[e]]

\* encode is called: metric_set = MetricSet::default(), registry.iter() begins
EncodeStart(e) ==
    /\ pc[e] = "idle"
    /\ Len(stdout) + Len(registry) <= MaxPrints
    /\ pc' = [pc EXCEPT ![e] = "loop"]
    /\ idx' = [idx EXCEPT ![e] = 1]
    /\ metric_set' = [metric_set EXCEPT ![e] = << >>]
    /\ dirty' = [dirty EXCEPT ![e] = FALSE]
    /\ UNCHANGED <<registry, counter, fam, nextInst, lockVars, stdout, family, labels,
                   metrics, visited, workVars, acqKeys, mustKeys, doneKeys, prev,
                   storedEver, keyIncs, incsDone>>

\* one (desc, metric) of the loop: name, type, unit and help are set, help is
\* printed, and desc.labels().encode() is evaluated for the call of metric.encode
EncodeEntry(e) ==
    /\ pc[e] = "loop"
    /\ idx[e] <= Len(registry)
    /\ family' = [family EXCEPT ![e] = FamilyHeader(Entry(e).desc, Entry(e).metric)]
    /\ stdout' = Append(stdout, HelpLine(family'[e]))
    /\ labels' = [labels EXCEPT ![e] = EncodeLabelVec(Entry(e).desc.labels)]
    /\ pc' = [pc EXCEPT ![e] = "call"]
    /\ UNCHANGED <<registry, counter, fam, nextInst, lockVars, idx, metric_set, metrics,
                   visited, workVars, histVars>>

\* family.metrics = <result of metric.encode>; metric_set.metric_families.push(family)
Pushed(e, result) ==
    /\ family' = [family EXCEPT ![e].metrics = result]
    /\ metric_set' = [metric_set EXCEPT ![e] = PushFamily(metric_set[e], family'[e])]
    /\ idx' = [idx EXCEPT ![e] = idx[e] + 1]
    /\ pc' = [pc EXCEPT ![e] = "loop"]

\* metric.encode(..) on a Counter: one atomic read of the cell
EncodeCounter(e) ==
    /\ pc[e] = "call"
    /\ Entry(e).metric.kind = "Counter"
    /\ Pushed(e, CounterEncode(counter[CounterCell], labels[e]))
    /\ UNCHANGED <<registry, counter, fam, nextInst, lockVars, stdout, labels, metrics,
                   visited, workVars, histVars>>

\* self.write() where self.read() was meant: an exclusive guard that the
\* return, dropping a read guard, never gives back
FamilyEncodeLockWrite(e) ==
    /\ pc[e] = "call"
    /\ Entry(e).metric.kind = "Family"
    /\ writer = "none"
    /\ readers = {}
    /\ writer' = e
    /\ readers' = readers
    /\ metrics' = [metrics EXCEPT ![e] = << >>]
    /\ visited' = [visited EXCEPT ![e] = {}]
    /\ acqKeys' = [acqKeys EXCEPT ![e] = KeysOf(fam)]
    /\ mustKeys' = [mustKeys EXCEPT ![e] = doneKeys]
    /\ pc' = [pc EXCEPT ![e] = "iter"]
    /\ UNCHANGED <<registry, counter, fam, nextInst, stdout, idx, metric_set, family,
                   labels, workVars, doneKeys, prev, dirty, storedEver, keyIncs, incsDone>>

\* the guard is dropped at once: the map is read without the lock
FamilyEncodeNoGuard(e) ==
    /\ pc[e] = "call"
    /\ Entry(e).metric.kind = "Family"
    /\ writer = "none"
    /\ readers' = readers
    /\ metrics' = [metrics EXCEPT ![e] = << >>]
    /\ visited' = [visited EXCEPT ![e] = {}]
    /\ acqKeys' = [acqKeys EXCEPT ![e] = KeysOf(fam)]
    /\ mustKeys' = [mustKeys EXCEPT ![e] = doneKeys]
    /\ pc' = [pc EXCEPT ![e] = "iter"]
    /\ UNCHANGED <<registry, counter, fam, nextInst, writer, stdout, idx, metric_set,
                   family, labels, workVars, doneKeys, prev, dirty, storedEver, keyIncs,
                   incsDone>>

\* Family::encode begins: metrics = vec![], guard = self.read() (blocks while a
\* writer holds the lock)
FamilyEncodeLock(e) ==
    /\ pc[e] = "call"
    /\ Entry(e).metric.kind = "Family"
    /\ writer = "none"
    /\ readers' = readers \cup {e}
    /\ metrics' = [metrics EXCEPT ![e] = << >>]
    /\ visited' = [visited EXCEPT ![e] = {}]
    /\ acqKeys' = [acqKeys EXCEPT ![e] = KeysOf(fam)]
    /\ mustKeys' = [mustKeys EXCEPT ![e] = doneKeys]
    /\ pc' = [pc EXCEPT ![e] = "iter"]
    /\ UNCHANGED <<registry, counter, fam, nextInst, writer, stdout, idx, metric_set,
                   family, labels, workVars, doneKeys, prev, dirty, storedEver, keyIncs,
                   incsDone>>

\* an iteration that takes the entries out of the map (drain in place of iter)
FamilyEncodeVisitDrain(e) ==
    /\ pc[e] = "iter"
    /\ \E k \in KeysOf(fam) \ visited[e] :
         LET merged == AppendLabels(EncodeLabelVec(k), labels[e]) IN
           /\ metrics' = [metrics EXCEPT
                            ![e] = metrics[e] \o CounterEncode(counter[fam[k]], merged.label)]
           /\ labels' = [labels EXCEPT ![e] = merged.labels]
           /\ visited' = [visited EXCEPT ![e] = visited[e] \cup {k}]
           /\ fam' = [fam EXCEPT ![k] = 0]
    /\ UNCHANGED <<registry, counter, nextInst, lockVars, stdout, pc, idx, metric_set,
                   family, workVars, histVars>>

\* one turn of the loop over guard.iter(): the HashMap yields some entry not yet
\* yielded, its key's labels get the prefix appended, its counter is read
FamilyEncodeVisit(e) ==
    /\ pc[e] = "iter"
    /\ \E k \in KeysOf(fam) \ visited[e] :
         LET merged == AppendLabels(EncodeLabelVec(k), labels[e]) IN
           /\ metrics' = [metrics EXCEPT
                            ![e] = metrics[e] \o CounterEncode(counter[fam[k]], merged.label)]
           /\ labels' = [labels EXCEPT ![e] = merged.labels]
           /\ visited' = [visited EXCEPT ![e] = visited[e] \cup {k}]
    /\ UNCHANGED <<registry, counter, fam, nextInst, lockVars, stdout, pc, idx, metric_set,
                   family, workVars, histVars>>

\* the iterator is exhausted: Family::encode returns metrics and drops the guard
FamilyEncodeReturn(e) ==
    /\ pc[e] = "iter"
    /\ KeysOf(fam) \ visited[e] = {}
    /\ readers' = readers \ {e}
    /\ doneKeys' = doneKeys \cup visited[e]
    /\ pc' = [pc EXCEPT ![e] = "ret"]
    /\ UNCHANGED <<registry, counter, fam, nextInst, writer, stdout, idx, metric_set,
                   family, labels, metrics, visited, workVars, acqKeys, mustKeys, prev,
                   dirty, storedEver, keyIncs, incsDone>>

\* back in the loop of encode with the family's metrics; the locals of
\* Family::encode are gone
EncodeFamily(e) ==
    /\ pc[e] = "ret"
    /\ Pushed(e, metrics[e])
    /\ metrics' = [metrics EXCEPT ![e] = << >>]
    /\ visited' = [visited EXCEPT ![e] = {}]
    /\ acqKeys' = [acqKeys EXCEPT ![e] = {}]
    /\ mustKeys' = [mustKeys EXCEPT ![e] = {}]
    /\ UNCHANGED <<registry, counter, fam, nextInst, lockVars, stdout, labels,
                   workVars, doneKeys, prev, dirty, storedEver, keyIncs, incsDone>>

\* registry.iter() is exhausted: encode returns metric_set
EncodeReturn(e) ==
    /\ pc[e] = "loop"
    /\ idx[e] > Len(registry)
    /\ pc' = [pc EXCEPT ![e] = "done"]
    /\ UNCHANGED <<registry, counter, fam, nextInst, lockVars, stdout, idx, metric_set,
                   family, labels, metrics, visited, workVars, histVars>>

\* the caller takes the MetricSet; the locals of encode are gone
EncodeFinish(e) ==
    /\ pc[e] = "done"
    /\ pc' = [pc EXCEPT ![e] = "idle"]
    /\ prev' = [prev EXCEPT
                  ![e] = IF dirty[e] THEN NoPrev ELSE [some |-> TRUE, val |-> metric_set[e]]]
    /\ idx' = [idx EXCEPT ![e] = 1]
    /\ metric_set' = [metric_set EXCEPT ![e] = << >>]
    /\ family' = [family EXCEPT ![e] = NoFamily]
    /\ labels' = [labels EXCEPT ![e] = << >>]
    /\ dirty' = [dirty EXCEPT ![e] = TRUE]
    /\ UNCHANGED <<registry, counter, fam, nextInst, lockVars, stdout, metrics, visited,
                   workVars, acqKeys, mustKeys, doneKeys, storedEver, keyIncs, incsDone>>

EncoderStep(e) ==
    \/ EncodeStart(e)
    \/ EncodeEntry(e)
    \/ EncodeCounter(e)
    \/ FamilyEncodeLock(e)
    \/ FamilyEncodeVisit(e)
    \/ FamilyEncodeReturn(e)
    \/ EncodeFamily(e)
    \/ EncodeReturn(e)
    \/ EncodeFinish(e)

(* ------------------- counters and get_or_create ------------------------ *)

\* Counter::inc through the worker's clone of the registered counter
CounterInc(w) ==
    /\ wpc[w] = "idle"
    /\ IncsMade < MaxInc
    /\ counter' = [counter EXCEPT ![CounterCell] = @ + 1]
    /\ incsDone' = [incsDone EXCEPT ![CounterCell] = @ + 1]
    /\ Mutated
    /\ UNCHANGED <<registry, fam, nextInst, lockVars, stdout, encVars, workVars,
                   acqKeys, mustKeys, doneKeys, storedEver, keyIncs>>

\* Family::get_or_create, the lookup under the read lock
GetOrCreateLookup(w) ==
    /\ wpc[w] = "idle"
    /\ writer = "none"
    /\ \E k \in Keys :
         /\ wkey' = [wkey EXCEPT ![w] = k]
         /\ IF fam[k] # 0
            THEN /\ handle' = [handle EXCEPT ![w] = fam[k]]
                 /\ wpc' = [wpc EXCEPT ![w] = "have"]
            ELSE /\ handle' = handle
                 /\ wpc' = [wpc EXCEPT ![w] = "miss"]
    /\ UNCHANGED <<registry, counter, fam, nextInst, lockVars, stdout, encVars, histVars>>

\* Family::get_or_create, the write lock after a miss
GetOrCreateWriteLock(w) ==
    /\ wpc[w] = "miss"
    /\ writer = "none"
    /\ readers = {}
    /\ writer' = w
    /\ wpc' = [wpc EXCEPT ![w] = "write"]
    /\ UNCHANGED <<registry, counter, fam, nextInst, readers, stdout, encVars, wkey,
                   handle, histVars>>

\* the entry is inserted without looking for a winner of the race
GetOrCreateInsertAlways(w) ==
    /\ wpc[w] = "write"
    /\ nextInst <= MaxInst
    /\ fam' = [fam EXCEPT ![wkey[w]] = nextInst]
    /\ nextInst' = nextInst + 1
    /\ storedEver' = [storedEver EXCEPT ![wkey[w]] = @ \cup {nextInst}]
    /\ Mutated
    /\ handle' = [handle EXCEPT ![w] = fam'[wkey[w]]]
    /\ writer' = "none"
    /\ wpc' = [wpc EXCEPT ![w] = "have"]
    /\ UNCHANGED <<registry, counter, readers, stdout, encVars, wkey, acqKeys, mustKeys,
                   doneKeys, keyIncs, incsDone>>

\* Family::get_or_create under the write lock: the entry of the key, constructed
\* and inserted only when still vacant; the lock is released
GetOrCreateInsert(w) ==
    /\ wpc[w] = "write"
    /\ IF fam[wkey[w]] = 0
       THEN /\ nextInst <= MaxInst
            /\ fam' = [fam EXCEPT ![wkey[w]] = nextInst]
            /\ nextInst' = nextInst + 1
            /\ storedEver' = [storedEver EXCEPT ![wkey[w]] = @ \cup {nextInst}]
            /\ Mutated
       ELSE UNCHANGED <<fam, nextInst, storedEver, prev, dirty>>
    /\ handle' = [handle EXCEPT ![w] = fam'[wkey[w]]]
    /\ writer' = "none"
    /\ wpc' = [wpc EXCEPT ![w] = "have"]
    /\ UNCHANGED <<registry, counter, readers, stdout, encVars, wkey, acqKeys, mustKeys,
                   doneKeys, keyIncs, incsDone>>

\* Counter::inc through the handle get_or_create returned
HandleInc(w) ==
    /\ wpc[w] = "have"
    /\ IncsMade < MaxInc
    /\ counter' = [counter EXCEPT ![handle[w]] = @ + 1]
    /\ incsDone' = [incsDone EXCEPT ![handle[w]] = @ + 1]
    /\ keyIncs' = [keyIncs EXCEPT ![wkey[w]] = @ + 1]
    /\ Mutated
    /\ wpc' = [wpc EXCEPT ![w] = "idle"]
    /\ wkey' = [wkey EXCEPT ![w] = KeyGet]
    /\ handle' = [handle EXCEPT ![w] = 0]
    /\ UNCHANGED <<registry, fam, nextInst, lockVars, stdout, encVars,
                   acqKeys, mustKeys, doneKeys, storedEver>>

\* the handle is dropped unused
HandleDrop(w) ==
    /\ wpc[w] = "have"
    /\ wpc' = [wpc EXCEPT ![w] = "idle"]
    /\ wkey' = [wkey EXCEPT ![w] = KeyGet]
    /\ handle' = [handle EXCEPT ![w] = 0]
    /\ UNCHANGED <<registry, counter, fam, nextInst, lockVars, stdout, encVars, histVars>>

WorkerStep(w) ==
    \/ CounterInc(w)
    \/ GetOrCreateLookup(w)
    \/ GetOrCreateWriteLock(w)
    \/ GetOrCreateInsert(w)
    \/ HandleInc(w)
    \/ HandleDrop(w)

(* --------------------------- specifications ---------------------------- *)

\* registration, one encoding thread and one thread using the metrics
Next ==
    \/ Register
    \/ EncoderStep("e1")
    \/ WorkerStep("w1")

Spec == Init /\ [][Next]_vars

\* the threads using the metrics, racing on the family
RaceNext == \E w \in Workers : WorkerStep(w)

RaceSpec == Init /\ [][RaceNext]_vars

\* registrations with every unit and kind, encoded by one thread while the
\* counter is incremented; the family starts empty or with one child
MetaInit == \E map \in {EmptyMap, OneChildMap} : InitState(<< >>, map)

MetaNext ==
    \/ RegisterMeta
    \/ EncoderStep("e1")
    \/ CounterInc("w1")

MetaSpec == MetaInit /\ [][MetaNext]_vars

\* one registration made, two encoding threads and one thread creating children
\* of the family
LiveInit == \E r \in Registrations : InitState(<< r >>, EmptyMap)

\* get_or_create calls whose handle is dropped (an increment takes no lock)
CreatorStep(w) ==
    \/ GetOrCreateLookup(w)
    \/ GetOrCreateWriteLock(w)
    \/ GetOrCreateInsert(w)
    \/ HandleDrop(w)

LiveNext ==
    \/ \E e \in Encoders : EncoderStep(e)
    \/ CreatorStep("w1")

\* every thread that can take a step eventually takes one
LiveSpec ==
    /\ LiveInit
    /\ [][LiveNext]_vars
    /\ \A e \in Encoders : WF_vars(EncoderStep(e))
    /\ WF_vars(CreatorStep("w1"))

(* ------------------------------ claims --------------------------------- *)

\* the labels a sequence of (name, value) pairs stands for
LabelsOf(pairs) == [i \in 1..Len(pairs) |-> [name |-> pairs[i][1], value |-> pairs[i][2]]]

\* a data point that consists of one integer counter total
IsCounterPoint(points, total) ==
    points = << [value |-> [oneof |-> "CounterValue",
                            total |-> [oneof |-> "IntValue", int |-> total]]] >>

\* C1: whatever the interleaving of get_or_create calls, at most one instance is
\* ever stored for a key, a handle returned for a key is the stored instance, and
\* the stored instance has seen every increment made through a handle of its key
C1_SingleInstance ==
    /\ \A k \in Keys :
         /\ Cardinality(storedEver[k]) <= 1
         /\ fam[k] # 0 => storedEver[k] = {fam[k]} /\ counter[fam[k]] = keyIncs[k]
         /\ fam[k] = 0 => storedEver[k] = {} /\ keyIncs[k] = 0
    /\ \A w \in Workers :
         wpc[w] = "have" => handle[w] # 0 /\ handle[w] = fam[wkey[w]]

\* a first-access race is decided: one caller has its handle, the other missed the
\* same key before and is on its way to the write lock
C1_Witness ==
    /\ wpc["w1"] = "have"
    /\ wpc["w2"] = "miss"
    /\ wkey["w1"] = wkey["w2"]
    /\ keyIncs[wkey["w1"]] = 1

\* C2: while an encode holds the family's read lock no insertion takes effect, and
\* the data points it returns are those of the keys present when the lock was taken
C2_ReadExcludesInsert ==
    \A e \in Encoders :
      LET P == LabelsOf(Entry(e).desc.labels)
          LabelSets(ms) == {ms[i].labels : i \in DOMAIN ms}
      IN
        /\ pc[e] = "iter" =>
             /\ e \in readers
             /\ writer = "none"
             /\ KeysOf(fam) = acqKeys[e]
             /\ LabelSets(metrics[e]) = {LabelsOf(k) \o P : k \in visited[e]}
        /\ pc[e] = "ret" =>
             /\ visited[e] = acqKeys[e]
             /\ Len(metrics[e]) = Cardinality(acqKeys[e])
             /\ LabelSets(metrics[e]) = {LabelsOf(k) \o P : k \in acqKeys[e]}

\* an encode is iterating over a non-empty family while a get_or_create that missed
\* its key waits for the write lock
C2_Witness ==
    /\ pc["e1"] = "iter"
    /\ acqKeys["e1"] # {}
    /\ wpc["w1"] = "miss"

\* C3: a family encoded with prefix labels P returns, for every entry present, one
\* data point labelled with the key's labels followed by the whole of P, whatever
\* the entry's place in the iteration, and no key contributes twice; the families of
\* the MetricSet carry such points
C3_KeyLabelsThenPrefix ==
    \A e \in Encoders :
      /\ pc[e] = "ret" =>
           LET P == LabelsOf(Entry(e).desc.labels) IN
             /\ Len(metrics[e]) = Cardinality(acqKeys[e])
             /\ \A k \in acqKeys[e] :
                  \E i \in DOMAIN metrics[e] :
                    /\ metrics[e][i].labels = LabelsOf(k) \o P
                    /\ \E v \in 0..counter[fam[k]] :
                         IsCounterPoint(metrics[e][i].metric_points, v)
                    /\ \A j \in DOMAIN metrics[e] :
                         metrics[e][j].labels = metrics[e][i].labels => j = i
      /\ \A i \in DOMAIN metric_set[e] :
           registry[i].metric.kind = "Family" =>
             \A j \in DOMAIN metric_set[e][i].metrics :
               \E k \in Keys :
                 metric_set[e][i].metrics[j].labels
                   = LabelsOf(k) \o LabelsOf(registry[i].desc.labels)

\* a family of two children under a sub-registry label has been encoded
C3_Witness ==
    /\ pc["e1"] = "ret"
    /\ acqKeys["e1"] = Keys
    /\ Entry("e1").desc.labels = SubLabels
    /\ counter[fam[KeyPost]] = 1

\* C4: encode returns one MetricFamily per registered pair, in registration order,
\* the i-th carrying the i-th descriptor's name
C4_RegistryOrder ==
    \A e \in Encoders :
      /\ Len(metric_set[e]) <= Len(registry)
      /\ pc[e] = "done" => Len(metric_set[e]) = Len(registry)
      /\ \A i \in DOMAIN metric_set[e] : metric_set[e][i].name = registry[i].desc.name

\* a registry of two differently named entries has been encoded
C4_Witness ==
    /\ pc["e1"] = "done"
    /\ Len(registry) = 2
    /\ registry[1].desc.name # registry[2].desc.name

\* C5: a counter that has completed k increments (through any clone, none running)
\* encodes to one data point with exactly the labels given and one integer
\* CounterValue of total k
C5_CounterTotal ==
    \A e \in Encoders :
      pc[e] = "done" /\ ~dirty[e] =>
        \A i \in DOMAIN metric_set[e] :
          registry[i].metric.kind = "Counter" =>
            /\ Len(metric_set[e][i].metrics) = 1
            /\ metric_set[e][i].metrics[1].labels = LabelsOf(registry[i].desc.labels)
            /\ IsCounterPoint(metric_set[e][i].metrics[1].metric_points,
                              incsDone[CounterCell])

\* a counter registered under a sub-registry label was incremented twice through the
\* worker's clone and then encoded
C5_Witness ==
    /\ pc["e1"] = "done"
    /\ ~dirty["e1"]
    /\ Len(registry) = 1
    /\ registry[1].metric.kind = "Counter"
    /\ registry[1].desc.labels = SubLabels
    /\ incsDone[CounterCell] = 2

\* C6: a family's key set only grows, encode neither adds nor removes a key, and a
\* family encode returns a point for every key that contributed to a family encode
\* that had returned before it began
C6_NeverLosesEntry ==
    /\ [][/\ KeysOf(fam) \subseteq KeysOf(fam')
          /\ encVars' # encVars => fam' = fam]_vars
    /\ [](\A e \in Encoders : pc[e] = "ret" => mustKeys[e] \subseteq visited[e])

\* a family encode has returned after an earlier one that had a child to report
C6_Witness ==
    /\ pc["e1"] = "ret"
    /\ mustKeys["e1"] # {}
    /\ visited["e1"] # mustKeys["e1"]

\* two sequences holding the same elements the same number of times
SameBag(s, t) ==
    /\ Len(s) = Len(t)
    /\ \A i \in DOMAIN s :
         Cardinality({j \in DOMAIN s : s[j] = s[i]})
           = Cardinality({j \in DOMAIN t : t[j] = s[i]})

\* C7: two successive encodes with no change of a counter, a family or the registry
\* in between return the same families in the same order with the same name, type,
\* unit and help and the same data points, up to the order of a family's points
C7_IdempotentRead ==
    \A e \in Encoders :
      pc[e] = "done" /\ prev[e].some =>
        /\ Len(metric_set[e]) = Len(prev[e].val)
        /\ \A i \in DOMAIN metric_set[e] :
             /\ metric_set[e][i].name = prev[e].val[i].name
             /\ metric_set[e][i].type = prev[e].val[i].type
             /\ metric_set[e][i].unit = prev[e].val[i].unit
             /\ metric_set[e][i].help = prev[e].val[i].help
             /\ SameBag(metric_set[e][i].metrics, prev[e].val[i].metrics)

\* the second of two such encodes returned the family's points in another order
C7_Witness ==
    /\ pc["e1"] = "done"
    /\ prev["e1"].some
    /\ metric_set["e1"] # prev["e1"].val

\* the unit text of the exchange format
UnitWord(unit) ==
    IF ~unit.some THEN ""
    ELSE IF unit.tag = "Other" THEN unit.other
    ELSE CASE unit.tag = "Amperes" -> "amperes" [] unit.tag = "Bytes" -> "bytes"
           [] unit.tag = "Celsius" -> "celsius" [] unit.tag = "Grams" -> "grams"
           [] unit.tag = "Joules" -> "joules" [] unit.tag = "Meters" -> "meters"
           [] unit.tag = "Ratios" -> "ratios" [] unit.tag = "Seconds" -> "seconds"
           [] unit.tag = "Volts" -> "volts"

\* C8: name and help of an emitted family are the descriptor's, its type is the
\* kind's (Counter, also for a family of counters), its unit is the unit's lowercase
\* word, the text of Other(text), or empty; a family without entries is emitted with
\* all four and no metrics
C8_FamilyMetadata ==
    \A e \in Encoders :
      \A i \in DOMAIN metric_set[e] :
        /\ metric_set[e][i].name = registry[i].desc.name
        /\ metric_set[e][i].help = registry[i].desc.help
        /\ metric_set[e][i].type = [openmetrics |-> "COUNTER"]
        /\ metric_set[e][i].unit = UnitWord(registry[i].desc.unit)
        /\ registry[i].metric.kind = "Family" =>
             Len(metric_set[e][i].metrics) = Cardinality(KeysOf(fam))

\* an empty family registered with a custom unit has been encoded
C8_Witness ==
    /\ pc["e1"] = "done"
    /\ Len(metric_set["e1"]) = 1
    /\ registry[1].metric.kind = "Family"
    /\ registry[1].desc.unit = OtherUnit("requests")
    /\ KeysOf(fam) = {}
    /\ metric_set["e1"][1].metrics = << >>

C10_NoSideEffects ==
    [][encVars' # encVars => UNCHANGED <<registry, fam, counter, stdout>>]_vars

====
